---------------------------- MODULE Spec2Model ----------------------------
(***************************************************************************)
(* Verification model of the DonCEy Kong Jr client                         *)
(* (Client/client_interface.c, Client/client_sockets.c,                    *)
(* Client/client_constants.h).                                             *)
(*                                                                         *)
(* Text is modelled at character level: a C string is a tuple of           *)
(* one-character strings, the NUL byte is the empty string.  recv_line and  *)
(* the sscanf/strncmp/strncpy calls of the client are operators over such  *)
(* tuples, so that formatting on the server side and parsing on the client *)
(* side are two different computations.                                    *)
(***************************************************************************)
EXTENDS Integers, Sequences, FiniteSets, TLC

(***************************************************************************)
(* Program constants (client_constants.h and the buffer declarations).     *)
(***************************************************************************)
MAX_MAP_WIDTH == 32
MAX_MAP_HEIGHT == 32
MAX_PLAYERS == 16
ROLE_NONE == 0
ROLE_PLAYER == 1
ROLE_SPECTATOR == 2
LINE_SIZE == 256
NAME_WIDTH == 31
TAG_WIDTH == 15
GAMEOVER_WIDTH == 7

(***************************************************************************)
(* Characters and C-string helpers.  The scanning helpers are written with *)
(* CHOOSE over index ranges: each is the closed form of the corresponding  *)
(* character loop of the C library.                                        *)
(***************************************************************************)
NUL == ""
SP == " "
CR == "\r"
LF == "\n"

IsSpace(c) == c \in {" ", "\t", "\r", "\n"}

Digits == <<"0", "1", "2", "3", "4", "5", "6", "7", "8", "9">>

IsDigit(c) == \E d \in 1..10 : Digits[d] = c

DigitVal(c) == (CHOOSE d \in 1..10 : Digits[d] = c) - 1

Min(a, b) == IF a < b THEN a ELSE b

\* strncmp(s, lit, Len(lit)) == 0: the first Len(lit) characters of s are lit.
StartsWith(s, lit) ==
    /\ Len(s) >= Len(lit)
    /\ SubSeq(s, 1, Len(lit)) = lit

\* strcmp(a, b) == 0 on NUL-terminated buffers holding a and b.
StrEq(a, b) == a = b

\* Index of the first character of s at or after i that is not white space
\* (Len(s) + 1 when there is none).
SkipWs(s, i) ==
    CHOOSE j \in i..(Len(s) + 1) :
        /\ j > Len(s) \/ ~IsSpace(s[j])
        /\ \A k \in i..(j - 1) : IsSpace(s[k])

\* End (exclusive) of the run of non-space characters of s starting at i,
\* at most w characters long (w = 0: no field width).
WordEnd(s, i, w) ==
    CHOOSE j \in i..(Len(s) + 1) :
        /\ j > Len(s) \/ IsSpace(s[j]) \/ (w # 0 /\ j - i >= w)
        /\ \A k \in i..(j - 1) : ~IsSpace(s[k]) /\ (w = 0 \/ k - i < w)

\* End (exclusive) of the run of decimal digits of s starting at i.
DigitsEnd(s, i) ==
    CHOOSE j \in i..(Len(s) + 1) :
        /\ j > Len(s) \/ ~IsDigit(s[j])
        /\ \A k \in i..(j - 1) : IsDigit(s[k])

RECURSIVE DigitsValue(_, _, _, _)
DigitsValue(s, i, j, acc) ==
    IF i >= j THEN acc ELSE DigitsValue(s, i + 1, j, acc * 10 + DigitVal(s[i]))

(***************************************************************************)
(* sscanf.  A format is a tuple of directives:                             *)
(*   [k |-> "lit", s |-> chars]  ordinary characters, matched exactly      *)
(*   [k |-> "ws"]                white space: skips any white space        *)
(*   [k |-> "d"]                 %d                                        *)
(*   [k |-> "s", w |-> n]        %ns (n = 0: %s without a field width)     *)
(* The result is [n |-> return value, v |-> converted values in order].    *)
(* The return value is the number of conversions stored, or -1 (EOF) when  *)
(* the input ends before the first conversion.                             *)
(***************************************************************************)
FLit(s) == [k |-> "lit", s |-> s]
FWs == [k |-> "ws"]
FInt == [k |-> "d"]
FStr(w) == [k |-> "s", w |-> w]

ScanStop(str, i, vs) ==
    [n |-> IF vs = <<>> /\ i > Len(str) THEN -1 ELSE Len(vs), v |-> vs]

RECURSIVE Scan(_, _, _, _, _)
Scan(str, fmt, k, i, vs) ==
    IF k > Len(fmt) THEN [n |-> Len(vs), v |-> vs]
    ELSE LET d == fmt[k] IN
      CASE d.k = "lit" ->
             IF StartsWith(SubSeq(str, i, Len(str)), d.s)
             THEN Scan(str, fmt, k + 1, i + Len(d.s), vs)
             ELSE ScanStop(str, i, vs)
        [] d.k = "ws" -> Scan(str, fmt, k + 1, SkipWs(str, i), vs)
        [] d.k = "d" ->
             LET j == SkipWs(str, i)
                 signed == j <= Len(str) /\ str[j] \in {"-", "+"}
                 b == IF signed THEN j + 1 ELSE j
                 e == DigitsEnd(str, b)
                 mag == DigitsValue(str, b, e, 0)
             IN IF e = b THEN ScanStop(str, j, vs)
                ELSE Scan(str, fmt, k + 1, e,
                          Append(vs, IF signed /\ str[j] = "-" THEN 0 - mag ELSE mag))
        [] d.k = "s" ->
             LET j == SkipWs(str, i)
                 e == WordEnd(str, j, d.w)
             IN IF e = j THEN ScanStop(str, j, vs)
                ELSE Scan(str, fmt, k + 1, e, Append(vs, SubSeq(str, j, e - 1)))

Sscanf(str, fmt) == Scan(str, fmt, 1, 1, <<>>)

(***************************************************************************)
(* recv_line (client_sockets.c 77-117).  `bytes` is what the socket holds  *)
(* and will hold before the peer closes; when the loop asks for a byte     *)
(* past its end, recv() returns 0.  The result is [ret, buf, rest]: the    *)
(* return value, the string left in the buffer, and the bytes left in the  *)
(* socket.  j is the index of the byte at which the loop stops: the first  *)
(* one that is past bufferSize - 1 stored bytes, past the end, or '\n'.    *)
(***************************************************************************)
recv_line(bytes, bufferSize) ==
    IF bufferSize <= 1 THEN [ret |-> -1, buf |-> <<>>, rest |-> bytes]
    ELSE LET n == Len(bytes)
             cap == bufferSize - 1
             j == CHOOSE i \in 1..(n + 1) :
                    /\ i > cap \/ i > n \/ bytes[i] = LF
                    /\ \A k \in 1..(i - 1) : k <= cap /\ bytes[k] # LF
             total == j - 1
             stripped == total > 0 /\ bytes[total] = CR
             buf == SubSeq(bytes, 1, IF stripped THEN total - 1 ELSE total)
         IN IF j > cap
            THEN [ret |-> Len(buf), buf |-> buf, rest |-> SubSeq(bytes, j, n)]
            ELSE IF j > n
            THEN [ret |-> -1, buf |-> <<>>, rest |-> <<>>]
            ELSE [ret |-> Len(buf), buf |-> buf, rest |-> SubSeq(bytes, j + 1, n)]

(***************************************************************************)
(* The literals the client compares against or sends.                      *)
(***************************************************************************)
S_MAP_SIZE == <<"M", "A", "P", "_", "S", "I", "Z", "E">>
S_MAP_ROW == <<"M", "A", "P", "_", "R", "O", "W">>
S_MAP_END == <<"M", "A", "P", "_", "E", "N", "D">>
S_PLAYERS_BEGIN == <<"P", "L", "A", "Y", "E", "R", "S", "_", "B", "E", "G", "I", "N">>
S_PLAYERS_END == <<"P", "L", "A", "Y", "E", "R", "S", "_", "E", "N", "D">>
S_PLAYER == <<"P", "L", "A", "Y", "E", "R">>
S_JOINED == <<"J", "O", "I", "N", "E", "D">>
S_SPECTATE_OK == <<"S", "P", "E", "C", "T", "A", "T", "E", "_", "O", "K">>
S_SPECTATE_WAIT == <<"S", "P", "E", "C", "T", "A", "T", "E", "_", "W", "A", "I", "T">>
S_STATE == <<"S", "T", "A", "T", "E">>
S_true == <<"t", "r", "u", "e">>
S_false == <<"f", "a", "l", "s", "e">>

(***************************************************************************)
(* The sscanf formats of client_interface.c.                               *)
(***************************************************************************)
\* "MAP_SIZE %d %d"
FmtMapSize == <<FLit(S_MAP_SIZE), FWs, FInt, FWs, FInt>>
\* "MAP_ROW %d %s"
FmtMapRow == <<FLit(S_MAP_ROW), FWs, FInt, FWs, FStr(0)>>
\* "PLAYER %d %31s"
FmtPlayer == <<FLit(S_PLAYER), FWs, FInt, FWs, FStr(NAME_WIDTH)>>
\* "JOINED %d"
FmtJoined == <<FLit(S_JOINED), FWs, FInt>>
\* "SPECTATE_OK %d"
FmtSpectateOk == <<FLit(S_SPECTATE_OK), FWs, FInt>>
\* "SPECTATE_WAIT %d"
FmtSpectateWait == <<FLit(S_SPECTATE_WAIT), FWs, FInt>>
\* "%15s %d %d %d %d %d %d %d %7s"
FmtStatePlayer ==
    <<FStr(TAG_WIDTH), FWs, FInt, FWs, FInt, FWs, FInt, FWs, FInt, FWs, FInt,
      FWs, FInt, FWs, FInt, FWs, FStr(GAMEOVER_WIDTH)>>
\* "%15s %d %d %d %d %d %7s"
FmtStateSpectator ==
    <<FStr(TAG_WIDTH), FWs, FInt, FWs, FInt, FWs, FInt, FWs, FInt, FWs, FInt,
      FWs, FStr(GAMEOVER_WIDTH)>>

(***************************************************************************)
(* The peer: the lines a server puts on the wire, formatted from their     *)
(* fields (the grammar of the protocol, one space between fields).         *)
(***************************************************************************)
RECURSIVE ItoaNat(_)
ItoaNat(n) ==
    IF n < 10 THEN <<Digits[n + 1]>>
    ELSE ItoaNat(n \div 10) \o <<Digits[(n % 10) + 1]>>

Itoa(n) == IF n < 0 THEN <<"-">> \o ItoaNat(0 - n) ELSE ItoaNat(n)

MsgJoined(id) == S_JOINED \o <<SP>> \o Itoa(id)
MsgSpectateOk(id) == S_SPECTATE_OK \o <<SP>> \o Itoa(id)
MsgSpectateWait(id) == S_SPECTATE_WAIT \o <<SP>> \o Itoa(id)
MsgPlayer(id, name) == S_PLAYER \o <<SP>> \o Itoa(id) \o <<SP>> \o name
MsgMapSize(w, h) == S_MAP_SIZE \o <<SP>> \o Itoa(w) \o <<SP>> \o Itoa(h)
MsgMapRow(y, row) == S_MAP_ROW \o <<SP>> \o Itoa(y) \o <<SP>> \o row
MsgState(s, id, x, y, sc, lv, lf, over) ==
    S_STATE \o <<SP>> \o Itoa(s) \o <<SP>> \o Itoa(id) \o <<SP>> \o Itoa(x)
    \o <<SP>> \o Itoa(y) \o <<SP>> \o Itoa(sc) \o <<SP>> \o Itoa(lv)
    \o <<SP>> \o Itoa(lf) \o <<SP>> \o (IF over THEN S_true ELSE S_false)
\* The seven-token snapshot that run_spectator_mode parses (744-745):
\* STATE <seq> <id> <x> <y> <score> <gameOver>.
MsgStateSpectator(s, id, x, y, sc, over) ==
    S_STATE \o <<SP>> \o Itoa(s) \o <<SP>> \o Itoa(id) \o <<SP>> \o Itoa(x)
    \o <<SP>> \o Itoa(y) \o <<SP>> \o Itoa(sc)
    \o <<SP>> \o (IF over THEN S_true ELSE S_false)

(***************************************************************************)
(* Bounds of the model.                                                    *)
(***************************************************************************)
\* INPUT messages per session.
MaxSeq == 2
\* PLAYER lines the peer lists in one roster (whole-client specification).
MaxListed == 1
\* Largest width and height of a valid map the peer announces (SpecMap).
MaxDim == 2
\* Height of the one-column maps the resolver is applied to (SpecResolver).
ColumnHeight == 3
\* Newline-terminated lines in one byte stream (SpecFraming).
MaxWireLines == 2

(***************************************************************************)
(* Peer alphabets.                                                         *)
(***************************************************************************)
TileCodes == {"W", "T", "=", "|", "S", "G", "."}

\* Ids the peer uses for players.
PeerIds == {1, 2}

Ana == <<"a", "n", "a">>

\* A row string one character longer than the row buffer can hold.
LongRow == [i \in 1..(MAX_MAP_WIDTH + 1) |-> "T"]

\* Row strings of MAP_ROW lines: lengths 1 to 4, and the over-long one.
PeerRows ==
    { <<"T">>, <<"|">>, <<"|", "T">>, <<"=", "S">>, <<"T", "|", "=">>,
      <<"G", "T", "|", "W">>, LongRow }

PeerYs == -1..(MaxDim + 1)

\* Announced sizes: every pair of small dimensions, and the ends of the
\* valid range.
PeerDims == 0..MaxDim

PeerSizes ==
    (PeerDims \X PeerDims)
    \cup {<<MAX_MAP_WIDTH, 1>>, <<MAX_MAP_WIDTH + 1, 1>>, <<1, MAX_MAP_HEIGHT + 1>>}

\* The map messages with the fields they were formatted from.
PeerSizeMsgs == {[l |-> MsgMapSize(d[1], d[2]), w |-> d[1], h |-> d[2]] : d \in PeerSizes}

PeerRowMsgs ==
    {[l |-> MsgMapRow(y, row), y |-> y, row |-> row] : y \in PeerYs, row \in PeerRows}

\* PLAYER lines with the fields they were formatted from.
PeerPlayerMsgs == {[l |-> MsgPlayer(id, Ana), id |-> id, name |-> Ana] : id \in PeerIds}

\* STATE lines with the fields they were formatted from.
StateFields(xs, ys, overs) ==
    [seq : {1}, id : PeerIds, x : xs, y : ys, score : {10}, level : {1}, lives : {3},
     over : overs]
    \cup [seq : {2}, id : {1}, x : {0}, y : {0}, score : {20}, level : {2}, lives : {0},
          over : {TRUE}]

StateLine(f) == MsgState(f.seq, f.id, f.x, f.y, f.score, f.level, f.lives, f.over)

PeerStateMsgs ==
    {[l |-> StateLine(f), f |-> f] :
        f \in StateFields({-1, 0, 1}, -1..(ColumnHeight + 1), BOOLEAN)}

\* Wire: what the peer of the whole-client specification sends: the empty
\* line and messages of every kind (each is a line outside the grammar of
\* the phases that wait for another kind).
Wire ==
    { <<>>,
      MsgJoined(1),
      MsgSpectateOk(1), MsgSpectateWait(1),
      S_PLAYERS_BEGIN, MsgPlayer(1, Ana), S_PLAYERS_END,
      MsgMapSize(1, 1), MsgMapRow(0, <<"T">>), S_MAP_END,
      MsgMapSize(MAX_MAP_WIDTH + 1, 1), MsgMapSize(1, 0), MsgMapRow(0, LongRow),
      MsgState(1, 1, 0, 1, 10, 1, 3, FALSE),
      MsgState(2, 1, 0, 0, 20, 2, 0, TRUE),
      MsgState(1, 2, 0, 1, 10, 1, 3, TRUE),
      MsgStateSpectator(2, 1, 0, 0, 20, TRUE) }

\* WireMap: what the peer of SpecMap sends during a map transfer.
WireMap ==
    { <<>>, <<"X">>, MsgState(1, 1, 0, 1, 10, 1, 3, FALSE), S_MAP_END }
    \cup {m.l : m \in PeerSizeMsgs}
    \cup {m.l : m \in PeerRowMsgs}

\* WireResolver: STATE lines of a running game for player 1 that put it on
\* and around a one-column map.
WireResolver ==
    {StateLine(f) : f \in [seq : {1}, id : {1}, x : {-1, 0, 1},
                           y : -1..ColumnHeight, score : {10}, level : {1},
                           lives : {3}, over : {FALSE}]}

AllWire ==
    Wire \cup WireMap \cup WireResolver
    \cup {m.l : m \in PeerStateMsgs} \cup {m.l : m \in PeerPlayerMsgs}

\* The contents of the socket before a recv_line call: one line of the
\* peer with its terminator, or nothing more (the peer closed).
Closed == <<>>
OnWire(wire) == {w \o <<LF>> : w \in wire} \cup {Closed}

WireBytes == OnWire(Wire)
WireMapBytes == OnWire(WireMap)
WireResolverBytes == OnWire(WireResolver)

(***************************************************************************)
(* recv_line and sscanf tabulated over everything the peers can send, so   *)
(* that each line is received and scanned once.                            *)
(***************************************************************************)
\* Every line of the peers is shorter than the line buffer, so a recv_line
\* call always finds the socket holding one whole line or nothing.
SocketContents == OnWire(AllWire)

RecvMemo == [b \in SocketContents |-> recv_line(b, LINE_SIZE)]

\* recv_line(state->socket_fd, line, sizeof(line))
RecvLine(bytes) == RecvMemo[bytes]

\* The first word of a line: its characters up to the first white space.
FirstWord(l) == SubSeq(l, 1, WordEnd(l, 1, 0) - 1)

Lines == {RecvMemo[b].buf : b \in SocketContents}

ScanMemo ==
    [l \in Lines |->
        [joined |-> Sscanf(l, FmtJoined),
         mapSize |-> Sscanf(l, FmtMapSize),
         mapRow |-> Sscanf(l, FmtMapRow),
         player |-> Sscanf(l, FmtPlayer),
         spectateOk |-> Sscanf(l, FmtSpectateOk),
         spectateWait |-> Sscanf(l, FmtSpectateWait),
         statePlayer |-> Sscanf(l, FmtStatePlayer),
         stateSpectator |-> Sscanf(l, FmtStateSpectator),
         first |-> FirstWord(l)]]

\* The sscanf results for line l.
Parse(l) == ScanMemo[l]

(***************************************************************************)
(* State.                                                                  *)
(*                                                                         *)
(* ClientState (client_constants.h): role, socket_fd, connected, map,      *)
(* playerId, playerX, playerY, score, level, lives, gameOver, numPlayers,  *)
(* players.  map.tiles[y] is row y of the tiles array as the string of its *)
(* bytes up to the last non-NUL one (the bytes after it are NUL).          *)
(*                                                                         *)
(* Locals of the running function: line and len (the buffer and the        *)
(* result of the last recv_line), seq, gotBegin, selected; mapRet is the   *)
(* value receive_initial_map returned in this session ("none" before).     *)
(*                                                                         *)
(* Environment: rxbuf holds the bytes of the socket that the last          *)
(* recv_line left unread; windowClosed is WindowShouldClose(); sent is the *)
(* log of send_line calls on the current connection, each entry the        *)
(* command and its first number.                                           *)
(*                                                                         *)
(* History: rx tells what recv_line did in the last step ("line": it       *)
(* returned a line, "closed": it failed, "none": it was not called);       *)
(* frame is what the last live-loop iteration read from the keyboard and   *)
(* computed, and whether the user pressed the play-again button that the   *)
(* iteration showed and the loop went on;                                  *)
(* tx is what the peer transmitted in the running map transfer:  *)
(* the announced size, per row index the row string sent (<<>> if none),   *)
(* and whether the transmission so far is a well-formed transfer.          *)
(***************************************************************************)
VARIABLES
    pc, role, socket_fd, connected, windowClosed,
    map, playerId, playerX, playerY, score, level, lives, gameOver,
    numPlayers, players,
    line, len, seq, gotBegin, selected, mapRet,
    rxbuf, sent, rx, frame, tx

vars ==
    <<pc, role, socket_fd, connected, windowClosed,
      map, playerId, playerX, playerY, score, level, lives, gameOver,
      numPlayers, players,
      line, len, seq, gotBegin, selected, mapRet,
      rxbuf, sent, rx, frame, tx>>

entity == <<playerX, playerY, score, level, lives, gameOver>>
roster == <<numPlayers, players>>

NoKeys == [space |-> FALSE, left |-> FALSE, right |-> FALSE, up |-> FALSE, down |-> FALSE]
NoFrame == [keys |-> NoKeys, dx |-> 0, dy |-> 0, click |-> FALSE]
NoTx == [clean |-> TRUE, w |-> 0, h |-> 0, rows |-> <<>>]

\* memset(&state, 0, sizeof(ClientState)) and the three assignments after it.
ZeroMap == [width |-> 0, height |-> 0, tiles |-> [y \in 0..(MAX_MAP_HEIGHT - 1) |-> <<>>]]
ZeroPlayers == [i \in 0..(MAX_PLAYERS - 1) |-> [id |-> 0, name |-> <<>>]]

Init ==
    /\ pc = "RoleSelect"
    /\ role = ROLE_NONE
    /\ socket_fd = "INVALID"
    /\ connected = 0
    /\ windowClosed = FALSE
    /\ map = ZeroMap
    /\ playerId = 0 /\ playerX = 0 /\ playerY = 0
    /\ score = 0 /\ level = 0 /\ lives = 0 /\ gameOver = 0
    /\ numPlayers = 0
    /\ players = ZeroPlayers
    /\ line = <<>> /\ len = 0 /\ seq = 0 /\ gotBegin = 0 /\ selected = 0
    /\ mapRet = "none"
    /\ rxbuf = <<>>
    /\ sent = <<>>
    /\ rx = "none"
    /\ frame = NoFrame
    /\ tx = NoTx

(***************************************************************************)
(* The tiles array.                                                        *)
(***************************************************************************)
\* The bytes of a row up to its last non-NUL byte.
TrimNul(r) ==
    SubSeq(r, 1, CHOOSE n \in 0..Len(r) :
                    /\ n = 0 \/ r[n] # NUL
                    /\ \A k \in (n + 1)..Len(r) : r[k] = NUL)

\* tiles[y][x], for 0 <= y < MAX_MAP_HEIGHT and 0 <= x <= MAX_MAP_WIDTH.
TileAt(m, y, x) == IF x < Len(m.tiles[y]) THEN m.tiles[y][x + 1] ELSE NUL

\* Row `old` after its first Len(bytes) bytes are overwritten by `bytes`.
RowStore(old, bytes) == TrimNul(bytes \o SubSeq(old, Len(bytes) + 1, Len(old)))

\* memset(tiles[y], '.', width); tiles[y][width] = '\0';
RowFill(old, width) == RowStore(old, [i \in 1..width |-> "."] \o <<NUL>>)

\* strncpy(tiles[y], row, width); tiles[y][width] = '\0';
\* strncpy copies at most width characters and pads with NUL up to width.
RowCopy(old, row, width) ==
    RowStore(old, [i \in 1..width |-> IF i <= Len(row) THEN row[i] ELSE NUL] \o <<NUL>>)

(***************************************************************************)
(* main: the return of a mode function, close_socket, and the test of the  *)
(* main loop (client_interface.c 840-849, 813).                            *)
(***************************************************************************)
\* A close that invalidates the handle and leaves connected set.
ReturnToMainStillConnected ==
    /\ socket_fd' = "INVALID"
    /\ UNCHANGED connected
    /\ rxbuf' = <<>>
    /\ seq' = 0 /\ gotBegin' = 0 /\ selected' = 0
    /\ frame' = NoFrame
    /\ pc' = IF windowClosed THEN "Exited" ELSE "RoleSelect"

\* A return to the main loop that leaves the socket open.
ReturnToMainWithoutClose ==
    /\ UNCHANGED <<socket_fd, connected>>
    /\ rxbuf' = <<>>
    /\ seq' = 0 /\ gotBegin' = 0 /\ selected' = 0
    /\ frame' = NoFrame
    /\ pc' = IF windowClosed THEN "Exited" ELSE "RoleSelect"

ReturnToMain ==
    /\ socket_fd' = "INVALID"
    /\ connected' = 0
    /\ rxbuf' = <<>>
    /\ seq' = 0 /\ gotBegin' = 0 /\ selected' = 0
    /\ frame' = NoFrame
    /\ pc' = IF windowClosed THEN "Exited" ELSE "RoleSelect"

\* The bytes one recv_line call finds in the socket: what the last call
\* left unread, or else what the peer does next.
RecvInput(peer) == IF rxbuf # <<>> THEN {rxbuf} ELSE peer

\* WindowShouldClose() becomes true when the user closes the window.
UserClosesWindow ==
    /\ pc \notin {"Exited", "Crashed"}
    /\ ~windowClosed
    /\ windowClosed' = TRUE
    /\ rx' = "none"
    /\ UNCHANGED <<pc, role, socket_fd, connected, map, playerId, entity, roster,
                   line, len, seq, gotBegin, selected, mapRet, rxbuf, sent, frame, tx>>

\* run_role_selection_screen and the test after it (main, 816-821).
RoleSelection(choice) ==
    /\ pc = "RoleSelect"
    /\ IF windowClosed
       THEN /\ role' = ROLE_NONE
            /\ pc' = "Exited"
       ELSE /\ role' = choice
            /\ pc' = "Connecting"
    /\ rx' = "none"
    /\ UNCHANGED <<socket_fd, connected, windowClosed, map, playerId, entity, roster,
                   line, len, seq, gotBegin, selected, mapRet, rxbuf, sent, frame, tx>>

\* create_and_connect_socket and the start of the chosen mode, up to its
\* first recv_line (main 819-838; run_player_mode 454-459;
\* run_spectator_mode 683 -> select_spectator_target 196 ->
\* fetch_player_list 136-141).
Connect(ok) ==
    /\ pc = "Connecting"
    /\ UNCHANGED <<role, windowClosed, map, entity, players, seq, selected, frame>>
    /\ line' = <<>> /\ len' = 0
    /\ rxbuf' = <<>>
    /\ rx' = "none"
    /\ mapRet' = "none"
    /\ tx' = NoTx
    /\ IF windowClosed \/ ~ok
       THEN /\ pc' = "Exited"
            /\ sent' = <<>>
            /\ UNCHANGED <<socket_fd, connected, playerId, numPlayers, gotBegin>>
       ELSE /\ socket_fd' = "OPEN"
            /\ connected' = 1
            /\ IF role = ROLE_PLAYER
               THEN /\ sent' = <<[cmd |-> "JOIN", arg |-> 0]>>
                    /\ playerId' = 0
                    /\ pc' = "Join"
                    /\ UNCHANGED <<numPlayers, gotBegin>>
               ELSE /\ gotBegin' = 0
                    /\ numPlayers' = 0
                    /\ sent' = <<[cmd |-> "LIST_PLAYERS", arg |-> 0]>>
                    /\ pc' = "Roster"
                    /\ UNCHANGED playerId

\* What the last recv_line did, from its return value as the callers test it.
RxOf(r) == IF r.ret < 0 THEN "closed" ELSE "line"

\* A test of the sscanf result that takes a mismatch for a match.
JoinedReplyLoose(l) ==
    LET j == Parse(l).joined
    IN [ok |-> j.n >= 0, id |-> IF j.n = 1 THEN j.v[1] ELSE 0]

\* run_player_mode 468-469: sscanf(line, "JOINED %d", &id) == 1.
JoinedReply(l) ==
    LET j == Parse(l).joined
    IN [ok |-> j.n = 1, id |-> IF j.n = 1 THEN j.v[1] ELSE 0]

\* run_player_mode 458-473: one iteration of the loop that waits for JOINED.
JoinStep(bytes) ==
    /\ pc = "Join"
    /\ LET r == RecvLine(bytes)
           j == JoinedReply(r.buf)
       IN /\ line' = r.buf /\ len' = r.ret /\ rx' = RxOf(r)
          /\ IF r.ret <= 0
             THEN /\ ReturnToMain
                  /\ UNCHANGED playerId
             ELSE /\ rxbuf' = r.rest
                  /\ UNCHANGED <<socket_fd, connected, seq, gotBegin, selected, frame>>
                  /\ IF j.ok
                     THEN /\ playerId' = j.id
                          /\ pc' = "MapSize"
                     ELSE UNCHANGED <<playerId, pc>>
    /\ UNCHANGED <<role, windowClosed, map, entity, roster, mapRet, sent, tx>>

(***************************************************************************)
(* receive_initial_map (client_interface.c 42-104).                        *)
(***************************************************************************)
\* A line whose first word is one of the three map keywords.
IsMapWord(l) == Parse(l).first \in {S_MAP_SIZE, S_MAP_ROW, S_MAP_END}

IsSizeMsg(l) == \E m \in PeerSizeMsgs : m.l = l
SizeMsgOf(l) == CHOOSE m \in PeerSizeMsgs : m.l = l
IsRowMsg(l) == \E m \in PeerRowMsgs : m.l = l
RowMsgOf(l) == CHOOSE m \in PeerRowMsgs : m.l = l

\* The record of the transmission after recv_line result r, while the
\* client waits for MAP_SIZE.  A well-formed transfer has, before its
\* MAP_SIZE, only lines that are not map messages, and announces a size
\* within 1..32 x 1..32.
TxSize(t, r) ==
    IF r.ret < 0 THEN [t EXCEPT !.clean = FALSE]
    ELSE IF IsSizeMsg(r.buf)
    THEN LET m == SizeMsgOf(r.buf)
         IN IF m.w \in 1..32 /\ m.h \in 1..32
            THEN [clean |-> t.clean, w |-> m.w, h |-> m.h,
                  rows |-> [y \in 0..(m.h - 1) |-> <<>>]]
            ELSE [t EXCEPT !.clean = FALSE]
    ELSE [t EXCEPT !.clean = t.clean /\ ~IsMapWord(r.buf)]

\* The same while the client waits for rows.  A well-formed transfer sends
\* each row index of the map once, with a string of exactly w characters,
\* then MAP_END, with only lines that are not map messages in between.
TxRow(t, r) ==
    IF r.ret < 0 THEN [t EXCEPT !.clean = FALSE]
    ELSE IF r.buf = S_MAP_END THEN t
    ELSE IF IsRowMsg(r.buf)
    THEN LET m == RowMsgOf(r.buf)
         IN IF m.y \in DOMAIN t.rows
            THEN [t EXCEPT !.rows[m.y] = m.row,
                           !.clean = t.clean /\ t.rows[m.y] = <<>> /\ Len(m.row) = t.w]
            ELSE [t EXCEPT !.clean = FALSE]
    ELSE [t EXCEPT !.clean = t.clean /\ ~IsMapWord(r.buf)]

\* A validation that accepts one column and one row too many.
SizeInBoundsOffByOne(w, h) ==
    ~(w <= 0 \/ h <= 0 \/ w > MAX_MAP_WIDTH + 1 \/ h > MAX_MAP_HEIGHT + 1)

\* receive_initial_map 63-67.
SizeInBounds(w, h) ==
    ~(w <= 0 \/ h <= 0 \/ w > MAX_MAP_WIDTH \/ h > MAX_MAP_HEIGHT)

\* receive_initial_map 72-76: every row below height filled with '.'.
Prefill(m, w, h) ==
    [width |-> w, height |-> h,
     tiles |-> [y \in 0..(MAX_MAP_HEIGHT - 1) |->
                  IF y < h THEN RowFill(m.tiles[y], w) ELSE m.tiles[y]]]

\* A wait for MAP_SIZE that also takes a STATE line for playerId.
MapSizeStepSyncsState(bytes) ==
    /\ pc = "MapSize"
    /\ LET r == RecvLine(bytes)
           m == Parse(r.buf).mapSize
           p == Parse(r.buf).statePlayer
       IN /\ line' = r.buf /\ len' = r.ret /\ rx' = RxOf(r)
          /\ tx' = TxSize(tx, r)
          /\ IF r.ret <= 0
             THEN /\ mapRet' = "-1"
                  /\ ReturnToMain
                  /\ UNCHANGED <<map, entity>>
             ELSE IF m.n # 2
             THEN /\ rxbuf' = r.rest
                  /\ UNCHANGED <<pc, socket_fd, connected, seq, gotBegin, selected,
                                 frame, mapRet, map>>
                  /\ IF p.n = 9 /\ StrEq(p.v[1], S_STATE) /\ p.v[3] = playerId
                     THEN /\ playerX' = p.v[4] /\ playerY' = p.v[5] /\ score' = p.v[6]
                          /\ UNCHANGED <<level, lives, gameOver>>
                     ELSE UNCHANGED entity
             ELSE IF ~SizeInBounds(m.v[1], m.v[2])
             THEN /\ mapRet' = "-1"
                  /\ ReturnToMain
                  /\ UNCHANGED <<map, entity>>
             ELSE /\ rxbuf' = r.rest
                  /\ map' = Prefill(map, m.v[1], m.v[2])
                  /\ pc' = "MapRows"
                  /\ UNCHANGED <<socket_fd, connected, seq, gotBegin, selected,
                                 frame, mapRet, entity>>
    /\ UNCHANGED <<role, windowClosed, playerId, roster, sent>>

\* receive_initial_map 50-78: one iteration of the loop that waits for
\* MAP_SIZE, and on a match the validation and the pre-fill.
MapSizeStep(bytes) ==
    /\ pc = "MapSize"
    /\ LET r == RecvLine(bytes)
           m == Parse(r.buf).mapSize
       IN /\ line' = r.buf /\ len' = r.ret /\ rx' = RxOf(r)
          /\ tx' = TxSize(tx, r)
          /\ IF r.ret <= 0
             THEN /\ mapRet' = "-1"
                  /\ ReturnToMain
                  /\ UNCHANGED map
             ELSE IF m.n # 2
             THEN /\ rxbuf' = r.rest
                  /\ UNCHANGED <<pc, socket_fd, connected, seq, gotBegin, selected,
                                 frame, mapRet, map>>
             ELSE IF ~SizeInBounds(m.v[1], m.v[2])
             THEN /\ mapRet' = "-1"
                  /\ ReturnToMain
                  /\ UNCHANGED map
             ELSE /\ rxbuf' = r.rest
                  /\ map' = Prefill(map, m.v[1], m.v[2])
                  /\ pc' = "MapRows"
                  /\ UNCHANGED <<socket_fd, connected, seq, gotBegin, selected,
                                 frame, mapRet>>
    /\ UNCHANGED <<role, windowClosed, playerId, entity, roster, sent>>

\* receive_initial_map 93-94.
RowInRange(y, height) == y >= 0 /\ y < height

\* What "MAP_ROW %d %s" followed by the row store can do with the parsed y
\* and row string.  The row buffer is char row[MAX_MAP_WIDTH + 1]; %s has no
\* field width, so a row string of more than MAX_MAP_WIDTH characters is
\* written past its end: undefined behaviour.  The outcomes kept here are a
\* crash of the process, and continuing with y either intact or overwritten
\* by the overflow (any row index, or an index outside the map).
RowEffects(y, row, height) ==
    IF Len(row) > MAX_MAP_WIDTH
    THEN {[crash |-> TRUE, y |-> y]}
         \cup {[crash |-> FALSE, y |-> yy] : yy \in {y} \cup (-1..(height - 1))}
    ELSE {[crash |-> FALSE, y |-> y]}

\* receive_initial_map 80-101 and the assignments that follow its
\* successful return (run_player_mode 480-486, run_spectator_mode 721-724).
MapRowsStep(bytes) ==
    /\ pc = "MapRows"
    /\ LET r == RecvLine(bytes)
           m == Parse(r.buf).mapRow
       IN /\ line' = r.buf /\ len' = r.ret /\ rx' = RxOf(r)
          /\ tx' = TxRow(tx, r)
          /\ IF r.ret <= 0
             THEN /\ mapRet' = "-1"
                  /\ ReturnToMain
                  /\ UNCHANGED <<map, playerX, playerY, score, gameOver>>
             ELSE IF StartsWith(r.buf, S_MAP_END)
             THEN /\ mapRet' = "0"
                  /\ rxbuf' = r.rest
                  /\ playerX' = 0 /\ playerY' = 0 /\ score' = 0 /\ gameOver' = 0
                  /\ seq' = 0
                  /\ pc' = "Live"
                  /\ UNCHANGED <<socket_fd, connected, gotBegin, selected, frame, map>>
             ELSE IF m.n # 2
             THEN /\ rxbuf' = r.rest
                  /\ UNCHANGED <<pc, socket_fd, connected, seq, gotBegin, selected, frame,
                                 mapRet, map, playerX, playerY, score, gameOver>>
             ELSE \E eff \in RowEffects(m.v[1], m.v[2], map.height) :
                  /\ UNCHANGED <<mapRet, playerX, playerY, score, gameOver>>
                  /\ IF eff.crash
                     THEN /\ pc' = "Crashed"
                          /\ UNCHANGED <<socket_fd, connected, rxbuf, seq, gotBegin,
                                         selected, frame, map>>
                     ELSE /\ rxbuf' = r.rest
                          /\ UNCHANGED <<pc, socket_fd, connected, seq, gotBegin,
                                         selected, frame>>
                          /\ map' = IF RowInRange(eff.y, map.height)
                                    THEN [map EXCEPT !.tiles[eff.y] =
                                            RowCopy(@, m.v[2], map.width)]
                                    ELSE map
    /\ UNCHANGED <<role, windowClosed, playerId, level, lives, roster, sent>>

(***************************************************************************)
(* The live loops (run_player_mode 489-648, run_spectator_mode 727-760).   *)
(***************************************************************************)
Tracked == [x |-> playerX, y |-> playerY, score |-> score, level |-> level,
            lives |-> lives, gameOver |-> gameOver]

\* run_player_mode 505-520: the STATE line of nine fields.
ApplyStatePlayer(e, pid, l) ==
    LET p == Parse(l).statePlayer
    IN IF p.n = 9 /\ StrEq(p.v[1], S_STATE) /\ p.v[3] = pid
       THEN [x |-> p.v[4], y |-> p.v[5], score |-> p.v[6], level |-> p.v[7],
             lives |-> p.v[8], gameOver |-> IF StrEq(p.v[9], S_true) THEN 1 ELSE 0]
       ELSE e

\* run_spectator_mode 740-754: the STATE line read with seven fields.
ApplyStateSpectator(e, pid, l) ==
    LET p == Parse(l).stateSpectator
    IN IF p.n = 7 /\ StrEq(p.v[1], S_STATE) /\ p.v[3] = pid
       THEN [e EXCEPT !.x = p.v[4], !.y = p.v[5], !.score = p.v[6],
                      !.gameOver = IF StrEq(p.v[7], S_true) THEN 1 ELSE 0]
       ELSE e

\* A range test that lets the row index reach the height.
InMapOffByOne(m, x, y) == y >= 0 /\ y <= m.height /\ x >= 0 /\ x < m.width

\* run_player_mode 536-537, 540-542, 545-547: the test that guards each of
\* the three reads of map.tiles.
InMap(m, x, y) == y >= 0 /\ y < m.height /\ x >= 0 /\ x < m.width

\* run_player_mode 529-549: the tile at column x of row y, '.' when the
\* coordinates are outside the map.
TileOrEmpty(m, x, y) ==
    IF InMap(m, x, y) THEN TileAt(m, y, x) ELSE "."

\* run_player_mode 536-549: the cells <<row, column>> of map.tiles that
\* the movement block indexes for a player at (x, y).
TileReads(m, x, y) == {<<yy, x>> : yy \in {r \in {y, y - 1, y + 1} : InMap(m, x, r)}}

\* A solidity test that also counts water.
is_solid_tile_char_or_water(t) == t = "T" \/ t = "=" \/ t = "|" \/ t = "S" \/ t = "W"

\* run_player_mode 551-556 (and is_solid_tile_char).
is_solid_tile_char(t) == t = "T" \/ t = "=" \/ t = "|" \/ t = "S"

\* A ceiling test that also counts the goal tile.
hasCeilingAboveWithGoal(above) == above = "T" \/ above = "=" \/ above = "S" \/ above = "G"

\* run_player_mode 563-564.
hasCeilingAbove(above) == above = "T" \/ above = "=" \/ above = "S"

\* A resolver whose ground movement tests the right key before the left.
ResolveMoveLeftWins(m, x, y, keys) ==
    LET current == TileOrEmpty(m, x, y)
        below == TileOrEmpty(m, x, y - 1)
        above == TileOrEmpty(m, x, y + 1)
        supported == is_solid_tile_char(current) \/ is_solid_tile_char(below)
        ceiling == hasCeilingAbove(above)
        onLianaTile == current = "|"
    IN IF keys.space /\ supported /\ ~ceiling
       THEN [dx |-> IF keys.left THEN -2 ELSE IF keys.right THEN 2 ELSE 0, dy |-> 1]
       ELSE [dx |-> IF keys.left THEN -1 ELSE IF keys.right THEN 1 ELSE 0,
             dy |-> IF onLianaTile /\ ~ceiling /\ keys.up THEN 1
                    ELSE IF onLianaTile /\ keys.down THEN -1
                    ELSE 0]

\* run_player_mode 529-597: dx and dy from the tiles around the player and
\* the keyboard.
ResolveMove(m, x, y, keys) ==
    LET current == TileOrEmpty(m, x, y)
        below == TileOrEmpty(m, x, y - 1)
        above == TileOrEmpty(m, x, y + 1)
        supported == is_solid_tile_char(current) \/ is_solid_tile_char(below)
        ceiling == hasCeilingAbove(above)
        onLianaTile == current = "|"
    IN IF keys.space /\ supported /\ ~ceiling
       THEN [dx |-> IF keys.left THEN -2 ELSE IF keys.right THEN 2 ELSE 0, dy |-> 1]
       ELSE [dx |-> IF keys.right THEN 1 ELSE IF keys.left THEN -1 ELSE 0,
             dy |-> IF onLianaTile /\ ~ceiling /\ keys.up THEN 1
                    ELSE IF onLianaTile /\ keys.down THEN -1
                    ELSE 0]

\* The movement block without its test of gameOver.
LiveIntentUngated(m, e, keys) ==
    LET mv == ResolveMove(m, e.x, e.y, keys)
    IN [dx |-> mv.dx, dy |-> mv.dy, emit |-> mv.dx # 0 \/ mv.dy # 0]

\* run_player_mode 525-606: the movement block.  It runs only while
\* gameOver is 0; an INPUT is sent when dx or dy is not 0.
LiveIntent(m, e, keys) ==
    IF e.gameOver = 0
    THEN LET mv == ResolveMove(m, e.x, e.y, keys)
         IN [dx |-> mv.dx, dy |-> mv.dy, emit |-> mv.dx # 0 \/ mv.dy # 0]
    ELSE [dx |-> 0, dy |-> 0, emit |-> FALSE]

\* A send that repeats the INPUT of the frame.
SendInputTwice(log, s, emit) ==
    [seq |-> IF emit THEN s + 2 ELSE s,
     sent |-> IF emit
              THEN Append(Append(log, [cmd |-> "INPUT", arg |-> s + 1]),
                          [cmd |-> "INPUT", arg |-> s + 2])
              ELSE log]

\* A counter that advances in every iteration, intent or not.
SendInputEveryFrame(log, s, emit) ==
    [seq |-> s + 1,
     sent |-> IF emit THEN Append(log, [cmd |-> "INPUT", arg |-> s + 1]) ELSE log]

\* run_player_mode 599-604: "INPUT %d %d %d\n" with ++seq.
SendInput(log, s, emit) ==
    [seq |-> IF emit THEN s + 1 ELSE s,
     sent |-> IF emit THEN Append(log, [cmd |-> "INPUT", arg |-> s + 1]) ELSE log]

\* A loop head that tests the ESC key only.
LoopExitsOnEscOnly(closed, esc) == esc

\* run_player_mode 489-494, run_spectator_mode 727-732: the loop runs
\* while (!WindowShouldClose()) and breaks on IsKeyPressed(KEY_ESCAPE),
\* both tested before the iteration reads.
LoopExits(closed, esc) == closed \/ esc

SetEntity(e) ==
    /\ playerX' = e.x /\ playerY' = e.y /\ score' = e.score
    /\ level' = e.level /\ lives' = e.lives /\ gameOver' = e.gameOver

\* One iteration of the live loop of run_player_mode.  esc is
\* IsKeyPressed(KEY_ESCAPE), keys the keyboard as the resolver reads it,
\* click a press of the "Volver a jugar" button (it ends the loop when
\* gameOver is set, and is not read otherwise).
LivePlayerStep(bytes, keys, esc, click) ==
    /\ pc = "Live" /\ role = ROLE_PLAYER
    /\ UNCHANGED <<role, windowClosed, map, playerId, roster, mapRet>>
    /\ tx' = NoTx
    /\ IF LoopExits(windowClosed, esc)
       THEN /\ ReturnToMain
            /\ rx' = "none"
            /\ UNCHANGED <<entity, line, len, sent>>
       ELSE LET r == RecvLine(bytes)
            IN /\ line' = r.buf /\ len' = r.ret /\ rx' = RxOf(r)
               /\ IF r.ret <= 0
                  THEN /\ ReturnToMain
                       /\ UNCHANGED <<entity, sent>>
                  ELSE /\ SetEntity(ApplyStatePlayer(Tracked, playerId, r.buf))
                       /\ LET mv == LiveIntent(map, Tracked', keys)
                              out == SendInput(sent, seq, mv.emit)
                          IN /\ (mv.emit => seq < MaxSeq)
                             /\ sent' = out.sent
                             /\ IF gameOver' # 0 /\ click
                                THEN ReturnToMain
                                ELSE /\ seq' = out.seq
                                     /\ rxbuf' = r.rest
                                     /\ frame' = [keys |-> keys, dx |-> mv.dx,
                                                  dy |-> mv.dy, click |-> FALSE]
                                     /\ UNCHANGED <<pc, socket_fd, connected, gotBegin,
                                                    selected>>

\* One iteration of the live loop of run_spectator_mode (727-760).  click
\* is a press of the "Volver a jugar" button, which draw_game_scene shows
\* while gameOver is set (345-375); no statement of this loop reads the
\* mouse.
LiveSpectatorStep(bytes, esc, click) ==
    /\ pc = "Live" /\ role = ROLE_SPECTATOR
    /\ UNCHANGED <<role, windowClosed, map, playerId, roster, mapRet, sent>>
    /\ tx' = NoTx
    /\ IF LoopExits(windowClosed, esc)
       THEN /\ ReturnToMain
            /\ rx' = "none"
            /\ UNCHANGED <<entity, line, len>>
       ELSE LET r == RecvLine(bytes)
            IN /\ line' = r.buf /\ len' = r.ret /\ rx' = RxOf(r)
               /\ IF r.ret <= 0
                  THEN /\ ReturnToMain
                       /\ UNCHANGED entity
                  ELSE /\ SetEntity(ApplyStateSpectator(Tracked, playerId, r.buf))
                       /\ rxbuf' = r.rest
                       /\ frame' = [NoFrame EXCEPT !.click = click /\ gameOver' # 0]
                       /\ UNCHANGED <<pc, socket_fd, connected, seq, gotBegin, selected>>

(***************************************************************************)
(* Spectator: roster fetch, target selection, SPECTATE handshake.          *)
(***************************************************************************)
\* strncpy(name, src, 31); name[31] = '\0';
CopyName(src) == SubSeq(src, 1, Min(Len(src), NAME_WIDTH))

\* fetch_player_list 143-179, one iteration, and on PLAYERS_END the return
\* into select_spectator_target (196-218).
RosterStep(bytes) ==
    /\ pc = "Roster"
    /\ UNCHANGED <<role, windowClosed, map, playerId, entity, seq, mapRet, sent, tx>>
    /\ LET r == RecvLine(bytes)
           p == Parse(r.buf).player
       IN /\ line' = r.buf /\ len' = r.ret /\ rx' = RxOf(r)
          /\ IF r.ret <= 0
             THEN /\ ReturnToMain
                  /\ UNCHANGED roster
             ELSE IF StartsWith(r.buf, S_PLAYERS_BEGIN)
             THEN /\ gotBegin' = 1
                  /\ rxbuf' = r.rest
                  /\ UNCHANGED <<pc, socket_fd, connected, selected, frame, roster>>
             ELSE IF StartsWith(r.buf, S_PLAYERS_END)
             THEN /\ rxbuf' = r.rest
                  /\ selected' = 0
                  /\ pc' = IF numPlayers = 0 THEN "NoPlayers" ELSE "Select"
                  /\ UNCHANGED <<socket_fd, connected, gotBegin, frame, roster>>
             ELSE /\ rxbuf' = r.rest
                  /\ UNCHANGED <<pc, socket_fd, connected, gotBegin, selected, frame>>
                  /\ IF gotBegin # 0 /\ p.n = 2 /\ numPlayers < MAX_PLAYERS
                     THEN /\ players' = [players EXCEPT ![numPlayers] =
                                           [id |-> p.v[1], name |-> CopyName(p.v[2])]]
                          /\ numPlayers' = numPlayers + 1
                     ELSE UNCHANGED roster

\* select_spectator_target 200-216: the screen shown for an empty roster,
\* left with ESC or by closing the window; run_spectator_mode then returns.
NoPlayersStep ==
    /\ pc = "NoPlayers"
    /\ ReturnToMain
    /\ rx' = "none"
    /\ UNCHANGED <<role, windowClosed, map, playerId, entity, roster, line, len,
                   mapRet, sent, tx>>

\* A cursor that wraps one entry too late when moving down.
MoveSelectionPastEnd(sel, n, ui) ==
    LET s1 == IF ui.up THEN (IF sel - 1 < 0 THEN n - 1 ELSE sel - 1) ELSE sel
    IN IF ui.down THEN (IF s1 + 1 > n THEN 0 ELSE s1 + 1) ELSE s1

\* select_spectator_target 221-228: the cursor after KEY_UP and KEY_DOWN,
\* wrapping around the n entries of the roster.
MoveSelection(sel, n, ui) ==
    LET s1 == IF ui.up THEN (IF sel - 1 < 0 THEN n - 1 ELSE sel - 1) ELSE sel
    IN IF ui.down THEN (IF s1 + 1 >= n THEN 0 ELSE s1 + 1) ELSE s1

\* select_spectator_target 220-262, one iteration, and on ENTER
\* run_spectator_mode 684-694.  ui holds IsKeyPressed of UP, DOWN, ENTER, ESC.
SelectStep(ui) ==
    /\ pc = "Select"
    /\ rx' = "none"
    /\ UNCHANGED <<role, windowClosed, map, entity, roster, line, len, mapRet, tx>>
    /\ LET s2 == MoveSelection(selected, numPlayers, ui)
           targetId == players[s2].id
       IN IF windowClosed
          THEN /\ ReturnToMain
               /\ UNCHANGED <<playerId, sent>>
          ELSE IF ui.enter
          THEN IF targetId < 0
               THEN /\ ReturnToMain
                    /\ UNCHANGED <<playerId, sent>>
               ELSE /\ sent' = Append(sent, [cmd |-> "SPECTATE", arg |-> targetId])
                    /\ playerId' = 0
                    /\ pc' = "Spectate"
                    /\ selected' = s2
                    /\ UNCHANGED <<socket_fd, connected, rxbuf, seq, gotBegin, frame>>
          ELSE IF ui.esc
          THEN /\ ReturnToMain
               /\ UNCHANGED <<playerId, sent>>
          ELSE /\ selected' = s2
               /\ UNCHANGED <<pc, socket_fd, connected, rxbuf, seq, gotBegin, frame,
                              playerId, sent>>

\* A negotiation that does not test for SPECTATE_WAIT.
SpectateReplyWithoutWait(l) ==
    LET ok == Parse(l).spectateOk
    IN IF ok.n = 1 THEN [kind |-> "ok", id |-> ok.v[1]]
       ELSE [kind |-> "other", id |-> 0]

\* run_spectator_mode 701-713: the two sscanf tests on a received line, in
\* the order of the code.
SpectateReply(l) ==
    LET ok == Parse(l).spectateOk
        wait == Parse(l).spectateWait
    IN IF ok.n = 1 THEN [kind |-> "ok", id |-> ok.v[1]]
       ELSE IF wait.n = 1 THEN [kind |-> "wait", id |-> wait.v[1]]
       ELSE [kind |-> "other", id |-> 0]

\* run_spectator_mode 693-714, one iteration.
SpectateStep(bytes) ==
    /\ pc = "Spectate"
    /\ UNCHANGED <<role, windowClosed, map, entity, roster, mapRet, sent, tx>>
    /\ LET r == RecvLine(bytes)
           reply == SpectateReply(r.buf)
       IN /\ line' = r.buf /\ len' = r.ret /\ rx' = RxOf(r)
          /\ IF r.ret <= 0
             THEN /\ ReturnToMain
                  /\ UNCHANGED playerId
             ELSE IF reply.kind = "ok"
             THEN /\ playerId' = reply.id
                  /\ pc' = "MapSize"
                  /\ rxbuf' = r.rest
                  /\ UNCHANGED <<socket_fd, connected, seq, gotBegin, selected, frame>>
             ELSE IF reply.kind = "wait"
             THEN /\ ReturnToMain
                  /\ UNCHANGED playerId
             ELSE /\ rxbuf' = r.rest
                  /\ UNCHANGED <<pc, socket_fd, connected, seq, gotBegin, selected, frame,
                                 playerId>>

(***************************************************************************)
(* Spec: the whole client, from main on, against a peer that sends any of  *)
(* the lines of Wire in any order and may close the connection any time.   *)
(***************************************************************************)
Keys(sp, l, r, u, d) == [space |-> sp, left |-> l, right |-> r, up |-> u, down |-> d]
AllKeys == [space : BOOLEAN, left : BOOLEAN, right : BOOLEAN, up : BOOLEAN, down : BOOLEAN]
AllUi == [up : BOOLEAN, down : BOOLEAN, enter : BOOLEAN, esc : BOOLEAN]

SomeKeys ==
    { NoKeys, Keys(FALSE, FALSE, TRUE, FALSE, FALSE), Keys(TRUE, TRUE, FALSE, FALSE, FALSE) }

\* What the user does during one iteration of the player's live loop.  With
\* ESC pressed the iteration reads nothing else.
PlayerInputs(ks) ==
    {[keys |-> k, esc |-> FALSE, click |-> c] : k \in ks, c \in BOOLEAN}
    \cup {[keys |-> NoKeys, esc |-> TRUE, click |-> FALSE]}

\* The peer lists at most MaxListed players.
PeerLists(bytes) ==
    numPlayers < MaxListed \/ ~StartsWith(bytes, S_PLAYER \o <<SP>>)

Next ==
    \/ UserClosesWindow
    \/ \E choice \in {ROLE_PLAYER, ROLE_SPECTATOR} : RoleSelection(choice)
    \/ \E ok \in BOOLEAN : Connect(ok)
    \/ \E bytes \in RecvInput(WireBytes) : JoinStep(bytes)
    \/ \E bytes \in RecvInput(WireBytes) : MapSizeStep(bytes)
    \/ \E bytes \in RecvInput(WireBytes) : MapRowsStep(bytes)
    \/ \E bytes \in RecvInput(WireBytes), u \in PlayerInputs(SomeKeys) :
          LivePlayerStep(bytes, u.keys, u.esc, u.click)
    \/ \E bytes \in RecvInput(WireBytes), u \in PlayerInputs({NoKeys}) :
          LiveSpectatorStep(bytes, u.esc, u.click)
    \/ \E bytes \in RecvInput(WireBytes) : PeerLists(bytes) /\ RosterStep(bytes)
    \/ NoPlayersStep
    \/ \E ui \in AllUi : SelectStep(ui)
    \/ \E bytes \in RecvInput(WireBytes) : SpectateStep(bytes)

Spec == Init /\ [][Next]_vars

\* The client is one thread that always runs: whenever it can take a step
\* that changes its state it eventually does (every blocking recv_line
\* eventually returns, with a line or with a failure).  Which line the
\* peer sends, and whether the user acts, stays open.
SpecFair == Spec /\ WF_vars(Next)

(***************************************************************************)
(* SpecMap: receive_initial_map alone, against a peer that sends map        *)
(* messages of every shape.  It starts where run_player_mode calls it in a *)
(* first session, or in a later one that finds the map of an earlier       *)
(* session in ClientState.                                                 *)
(***************************************************************************)
\* The map a transfer of "MAP_SIZE 2 2", "MAP_ROW 0 ST", "MAP_ROW 1 |=" leaves.
OldMap ==
    [width |-> 2, height |-> 2,
     tiles |-> [y \in 0..(MAX_MAP_HEIGHT - 1) |->
                  IF y = 0 THEN <<"S", "T">> ELSE IF y = 1 THEN <<"|", "=">> ELSE <<>>]]

InitMap ==
    /\ pc = "MapSize"
    /\ role = ROLE_PLAYER
    /\ socket_fd = "OPEN"
    /\ connected = 1
    /\ windowClosed = FALSE
    /\ map \in {ZeroMap, OldMap}
    /\ playerId = 1 /\ playerX = 0 /\ playerY = 0
    /\ score = 0 /\ level = 0 /\ lives = 0 /\ gameOver = 0
    /\ numPlayers = 0
    /\ players = ZeroPlayers
    /\ line = MsgJoined(1) /\ len = Len(MsgJoined(1))
    /\ seq = 0 /\ gotBegin = 0 /\ selected = 0
    /\ mapRet = "none"
    /\ rxbuf = <<>>
    /\ sent = <<[cmd |-> "JOIN", arg |-> 0]>>
    /\ rx = "line"
    /\ frame = NoFrame
    /\ tx = NoTx

NextMap ==
    \/ \E bytes \in RecvInput(WireMapBytes) : MapSizeStep(bytes)
    \/ \E bytes \in RecvInput(WireMapBytes) : MapRowsStep(bytes)

SpecMap == InitMap /\ [][NextMap]_vars

(***************************************************************************)
(* SpecResolver: the first iteration of a player's live loop, on every     *)
(* one-column map of height 1..ColumnHeight, with every keyboard state and *)
(* a STATE line that puts the player on or next to the map.  It starts     *)
(* where receive_initial_map has returned 0 in a first session.            *)
(***************************************************************************)
ColumnMap(col) ==
    [width |-> 1, height |-> Len(col),
     tiles |-> [y \in 0..(MAX_MAP_HEIGHT - 1) |->
                  IF y < Len(col) THEN <<col[y + 1]>> ELSE <<>>]]

Columns == UNION {[1..h -> TileCodes] : h \in 1..ColumnHeight}

InitResolver ==
    /\ pc = "Live"
    /\ role = ROLE_PLAYER
    /\ socket_fd = "OPEN"
    /\ connected = 1
    /\ windowClosed = FALSE
    /\ \E col \in Columns :
          /\ map = ColumnMap(col)
          /\ tx = [clean |-> TRUE, w |-> 1, h |-> Len(col),
                   rows |-> [y \in 0..(Len(col) - 1) |-> <<col[y + 1]>>]]
    /\ playerId = 1 /\ playerX = 0 /\ playerY = 0
    /\ score = 0 /\ level = 0 /\ lives = 0 /\ gameOver = 0
    /\ numPlayers = 0
    /\ players = ZeroPlayers
    /\ line = S_MAP_END /\ len = Len(S_MAP_END)
    /\ seq = 0 /\ gotBegin = 0 /\ selected = 0
    /\ mapRet = "0"
    /\ rxbuf = <<>>
    /\ sent = <<[cmd |-> "JOIN", arg |-> 0]>>
    /\ rx = "line"
    /\ frame = NoFrame

NextResolver ==
    /\ line = S_MAP_END
    /\ \E bytes \in RecvInput(WireResolverBytes), keys \in AllKeys :
          LivePlayerStep(bytes, keys, FALSE, FALSE)

SpecResolver == InitResolver /\ [][NextResolver]_vars

(***************************************************************************)
(* SpecFraming: recv_line alone, called again and again on one socket with *)
(* the line buffer of the client (char line[256]).  The socket holds a     *)
(* byte stream of up to MaxWireLines newline-terminated lines, short ones  *)
(* and ones around the size of the buffer, and then possibly bytes without *)
(* a terminator before the peer closes.                                    *)
(***************************************************************************)
Fill(n) == [i \in 1..n |-> "x"]

\* Line bodies: empty, short, with carriage returns, and of 254, 255 and
\* more characters (the buffer holds 255).
FramingBodies ==
    { <<>>, <<"a">>, <<"a", CR>>, <<CR>>, <<CR, "a">>,
      Fill(LINE_SIZE - 2), Fill(LINE_SIZE - 3) \o <<CR>>,
      Fill(LINE_SIZE - 1), Fill(LINE_SIZE),
      Fill(LINE_SIZE - 1) \o S_MAP_END }

RECURSIVE Streams(_)
Streams(n) ==
    IF n = 0 THEN { <<>>, <<"a">> }
    ELSE LET shorter == Streams(n - 1)
         IN shorter \cup {b \o <<LF>> \o t : b \in FramingBodies, t \in shorter}

InitFraming ==
    /\ pc = "RecvLine"
    /\ role = ROLE_NONE
    /\ socket_fd = "OPEN"
    /\ connected = 1
    /\ windowClosed = FALSE
    /\ map = ZeroMap
    /\ playerId = 0 /\ playerX = 0 /\ playerY = 0
    /\ score = 0 /\ level = 0 /\ lives = 0 /\ gameOver = 0
    /\ numPlayers = 0
    /\ players = ZeroPlayers
    /\ line = <<>> /\ len = 0 /\ seq = 0 /\ gotBegin = 0 /\ selected = 0
    /\ mapRet = "none"
    /\ rxbuf \in Streams(MaxWireLines)
    /\ sent = <<>>
    /\ rx = "none"
    /\ frame = NoFrame
    /\ tx = NoTx

\* len = recv_line(socket_fd, line, sizeof(line)) on the bytes the socket
\* still holds.
RecvCall ==
    /\ pc = "RecvLine"
    /\ rxbuf # <<>>
    /\ LET r == recv_line(rxbuf, LINE_SIZE)
       IN /\ line' = r.buf /\ len' = r.ret /\ rx' = RxOf(r)
          /\ rxbuf' = r.rest
    /\ UNCHANGED <<pc, role, socket_fd, connected, windowClosed, map, playerId, entity,
                   roster, seq, gotBegin, selected, mapRet, sent, frame, tx>>

NextFraming == RecvCall

SpecFraming == InitFraming /\ [][NextFraming]_vars

(***************************************************************************)
(* Properties.  The messages are recognised here by the tables of the peer *)
(* (the fields a line was formatted from), not by the client's parser.     *)
(***************************************************************************)
\* Where a mode function returns to: the main loop, which shows the role
\* selection again unless the window was closed.
Returned == IF windowClosed THEN "Exited" ELSE "RoleSelect"

Inputs(log) == SelectSeq(log, LAMBDA m : m.cmd = "INPUT")

JoinedMsgs == {[l |-> MsgJoined(i), id |-> i] : i \in PeerIds}
IsJoinedMsg(l) == \E m \in JoinedMsgs : m.l = l
JoinedMsgOf(l) == CHOOSE m \in JoinedMsgs : m.l = l

SpectateOkMsgs == {[l |-> MsgSpectateOk(i), id |-> i] : i \in PeerIds}
IsSpectateOkMsg(l) == \E m \in SpectateOkMsgs : m.l = l
SpectateOkMsgOf(l) == CHOOSE m \in SpectateOkMsgs : m.l = l
IsSpectateWaitMsg(l) == \E i \in PeerIds : l = MsgSpectateWait(i)

IsPlayerMsg(l) == \E m \in PeerPlayerMsgs : m.l = l
PlayerMsgOf(l) == CHOOSE m \in PeerPlayerMsgs : m.l = l

IsStateMsg(l) == \E m \in PeerStateMsgs : m.l = l
StateMsgOf(l) == CHOOSE m \in PeerStateMsgs : m.l = l

\* The first words of the messages a phase waits for.
PhaseWords(phase) ==
    IF phase = "Join" THEN {S_JOINED}
    ELSE IF phase = "Spectate" THEN {S_SPECTATE_OK, S_SPECTATE_WAIT}
    ELSE IF phase = "Roster" THEN {S_PLAYERS_BEGIN, S_PLAYER, S_PLAYERS_END}
    ELSE IF phase = "MapSize" THEN {S_MAP_SIZE}
    ELSE IF phase = "MapRows" THEN {S_MAP_ROW, S_MAP_END}
    ELSE IF phase = "Live" THEN {S_STATE}
    ELSE {}

ReceivePhases == {"Join", "Spectate", "Roster", "MapSize", "MapRows", "Live"}

\* C1 (SpecMap): a well-formed transfer (MAP_SIZE w h within 1..32, each row
\* 0..h-1 sent once with exactly w tile codes, MAP_END, and any lines that
\* are not map messages in between) never fails, and once it has succeeded
\* with every row sent the map has width w, height h and the transmitted
\* character in every cell.
C1_MapRoundTrip ==
    /\ tx.clean => mapRet # "-1"
    /\ (mapRet = "0" /\ tx.clean /\ \A y \in DOMAIN tx.rows : tx.rows[y] # <<>>)
         => /\ map.width = tx.w
            /\ map.height = tx.h
            /\ \A y \in 0..(tx.h - 1), x \in 0..(tx.w - 1) :
                  TileAt(map, y, x) = tx.rows[y][x + 1]

\* Every row of the received map that no in-range MAP_ROW named is '.' in
\* all of its width cells.
UntransmittedRowsEmpty ==
    mapRet = "0" =>
        \A y \in 0..(map.height - 1) :
            (y \in DOMAIN tx.rows /\ tx.rows[y] = <<>>)
                => \A x \in 0..(map.width - 1) : TileAt(map, y, x) = "."

\* C2 (SpecMap): a MAP_ROW line whose y is outside [0, height) changes no
\* cell of the map and does not fail the transfer (the receiver goes on
\* collecting rows), and after MAP_END every row that no in-range MAP_ROW
\* named consists of '.' only.
C2_OutOfRangeRowIgnored ==
    [][ /\ (/\ pc = "MapRows"
            /\ rx' = "line"
            /\ IsRowMsg(line')
            /\ RowMsgOf(line').y \notin 0..(map.height - 1))
           => (map' = map /\ pc' = "MapRows" /\ mapRet' = mapRet)
        /\ UntransmittedRowsEmpty' ]_vars

\* C3 (Spec): the roster fetch starts from an empty roster; every line
\* before PLAYERS_BEGIN is ignored; after PLAYERS_BEGIN each PLAYER line is
\* appended in arrival order while fewer than 16 are held and dropped
\* otherwise, any other line is ignored, and PLAYERS_END completes the
\* fetch with the roster as collected.
C3_RosterRoundTrip ==
    [][ pc = "Roster" =>
          /\ gotBegin = 0 => numPlayers = 0
          /\ sent = <<[cmd |-> "LIST_PLAYERS", arg |-> 0]>>
          /\ rx' = "line" =>
               IF line' = S_PLAYERS_BEGIN
               THEN pc' = "Roster" /\ gotBegin' = 1 /\ UNCHANGED roster
               ELSE IF gotBegin = 0
               THEN pc' = "Roster" /\ gotBegin' = 0 /\ UNCHANGED roster
               ELSE IF line' = S_PLAYERS_END
               THEN pc' \in {"Select", "NoPlayers"} /\ UNCHANGED roster
               ELSE IF IsPlayerMsg(line') /\ numPlayers < MAX_PLAYERS
               THEN /\ pc' = "Roster"
                    /\ numPlayers' = numPlayers + 1
                    /\ players'[numPlayers] =
                          [id |-> PlayerMsgOf(line').id, name |-> PlayerMsgOf(line').name]
                    /\ \A i \in 0..(numPlayers - 1) : players'[i] = players[i]
               ELSE pc' = "Roster" /\ UNCHANGED roster ]_vars

\* C4 (Spec): in the live loop of either role a received STATE line whose
\* id is playerId sets the tracked fields to the values of that line (x,
\* y, score and gameOver; level and lives too in a player session), and
\* any other received line leaves all six tracked fields as they were.
C4_StateFiltering ==
    [][ (pc = "Live" /\ rx' = "line") =>
          IF IsStateMsg(line') /\ StateMsgOf(line').f.id = playerId
          THEN LET f == StateMsgOf(line').f
               IN /\ playerX' = f.x /\ playerY' = f.y /\ score' = f.score
                  /\ gameOver' = (IF f.over THEN 1 ELSE 0)
                  /\ role = ROLE_PLAYER => (level' = f.level /\ lives' = f.lives)
                  /\ role # ROLE_PLAYER => UNCHANGED <<level, lives>>
          ELSE UNCHANGED entity ]_vars

\* The reference resolver, from the tiles at (x, y), (x, y-1), (x, y+1),
\* reads outside the map giving '.'.
RefTile(m, x, y) ==
    IF 0 <= y /\ y < m.height /\ 0 <= x /\ x < m.width THEN m.tiles[y][x + 1] ELSE "."

RefMove(m, x, y, k) ==
    LET cur == RefTile(m, x, y)
        bel == RefTile(m, x, y - 1)
        abv == RefTile(m, x, y + 1)
        sup == cur \in {"T", "=", "|", "S"} \/ bel \in {"T", "=", "|", "S"}
        ceil == abv \in {"T", "=", "S"}
    IN IF k.space /\ sup /\ ~ceil
       THEN <<IF k.left THEN -2 ELSE IF k.right THEN 2 ELSE 0, 1>>
       ELSE <<IF k.left /\ ~k.right THEN -1 ELSE IF k.right THEN 1 ELSE 0,
              IF cur = "|" /\ ~ceil /\ k.up THEN 1
              ELSE IF cur = "|" /\ k.down THEN -1
              ELSE 0>>

\* An iteration of the player's live loop has run its movement block.
Resolved == pc = "Live" /\ rx = "line" /\ line # S_MAP_END /\ gameOver = 0

C6_SequenceCounter ==
    LET ins == Inputs(sent)
    IN /\ \A k \in 1..Len(ins) : ins[k].arg = k
       /\ (pc = "Live" /\ role = ROLE_PLAYER) => seq = Len(ins)

\* C6 witness: two INPUT messages were sent, and then an iteration that
\* received a line produced no intent.
C6_Witness ==
    /\ pc = "Live" /\ role = ROLE_PLAYER
    /\ Len(Inputs(sent)) = 2 /\ seq = 2
    /\ rx = "line" /\ line # S_MAP_END
    /\ frame.dx = 0 /\ frame.dy = 0

\* C7 (Spec): while the client waits for the answer to SPECTATE, playerId
\* is 0; SPECTATE_WAIT ends the session (playerId stays 0, the mode
\* function returns to the main loop, the socket is closed), SPECTATE_OK
\* makes its id the playerId and starts the map transfer, and a disconnect
\* ends the session.
C7_SpectateNegotiation ==
    [][ pc = "Spectate" =>
          /\ playerId = 0
          /\ sent[Len(sent)].cmd = "SPECTATE"
          /\ (rx' = "line" /\ IsSpectateWaitMsg(line'))
               => (playerId' = 0 /\ pc' = Returned /\ socket_fd' = "INVALID"
                   /\ connected' = 0 /\ map' = map /\ sent' = sent)
          /\ (rx' = "line" /\ IsSpectateOkMsg(line'))
               => (playerId' = SpectateOkMsgOf(line').id /\ pc' = "MapSize")
          /\ rx' = "closed"
               => (playerId' = 0 /\ pc' = Returned /\ connected' = 0) ]_vars

\* C7 witness: SPECTATE_WAIT has ended a spectator session before any
\* SPECTATE_OK, and the client is back at the role selection.
C7_Witness ==
    /\ pc = "RoleSelect" /\ role = ROLE_SPECTATOR
    /\ rx = "line" /\ line = MsgSpectateWait(1)
    /\ playerId = 0 /\ connected = 0 /\ mapRet = "none"
    /\ Len(sent) = 2 /\ sent[2].cmd = "SPECTATE"

\* C8 (Spec): while the client waits for JOINED, JOIN is the only message
\* sent and playerId is 0; a JOINED line makes its id the playerId and
\* starts the map transfer, every other received line is discarded (the
\* wait goes on), and a disconnect ends the session with playerId 0.
C8_JoinHandshake ==
    [][ pc = "Join" =>
          /\ sent = <<[cmd |-> "JOIN", arg |-> 0]>>
          /\ playerId = 0
          /\ (rx' = "line" /\ IsJoinedMsg(line'))
               => (playerId' = JoinedMsgOf(line').id /\ pc' = "MapSize")
          /\ (rx' = "line" /\ ~IsJoinedMsg(line'))
               => (playerId' = 0 /\ pc' = "Join" /\ sent' = sent)
          /\ rx' = "closed"
               => (playerId' = 0 /\ pc' = Returned /\ sent' = sent) ]_vars

\* C9 (Spec): an iteration of the player's live loop after which gameOver
\* is true sends nothing, whatever the keys.
C9_NoInputWhenGameOver ==
    [][ (pc = "Live" /\ role = ROLE_PLAYER /\ gameOver' # 0) => sent' = sent ]_vars

\* C9 witness: an iteration applied a STATE line with gameOver true while
\* jump and left were pressed on a tile from which the resolver would jump.
C9_Witness ==
    /\ pc = "Live" /\ role = ROLE_PLAYER
    /\ gameOver = 1
    /\ rx = "line" /\ IsStateMsg(line) /\ StateMsgOf(line).f.over
    /\ frame.keys = Keys(TRUE, TRUE, FALSE, FALSE, FALSE)
    /\ RefMove(map, playerX, playerY, frame.keys) = <<-2, 1>>

\* C10 (Spec): in every receiving phase a received line whose first word
\* is not one the phase waits for is discarded: the phase continues, the
\* connection stays open, and map, playerId, tracked entity and roster are
\* unchanged.  (In the live loop with gameOver true the play-again button
\* may end the session in the same iteration.)
C10_UnexpectedLineDiscarded ==
    [][ (/\ pc \in ReceivePhases
         /\ rx' = "line"
         /\ FirstWord(line') \notin PhaseWords(pc)
         /\ ~(pc = "Live" /\ gameOver # 0))
          => /\ pc' = pc
             /\ UNCHANGED <<socket_fd, connected, map, playerId, entity, roster>> ]_vars

\* C11 (Spec): the first MAP_SIZE w h line received while the client waits
\* for the size decides the transfer.  With w or h outside 1..32 the
\* transfer fails: receive_initial_map returns -1, the map held before is
\* unchanged, the mode function returns to the main loop with nothing
\* sent, and a session whose transfer failed never reaches the live loop
\* and has sent no INPUT.  With both within 1..32 the map gets that size
\* with '.' in every cell and the client goes on to collect rows.
C11_MapSizeValidation ==
    [][ /\ (pc = "MapSize" /\ rx' = "line" /\ IsSizeMsg(line')) =>
             LET m == SizeMsgOf(line')
             IN IF m.w \in 1..32 /\ m.h \in 1..32
                THEN /\ pc' = "MapRows" /\ mapRet' = mapRet
                     /\ map'.width = m.w /\ map'.height = m.h
                     /\ \A y \in 0..(m.h - 1), x \in 0..(m.w - 1) :
                           TileAt(map', y, x) = "."
                ELSE /\ mapRet' = "-1" /\ map' = map
                     /\ pc' = Returned /\ sent' = sent
        /\ mapRet' = "-1" => (pc' \notin {"MapRows", "Live"} /\ Inputs(sent') = <<>>) ]_vars

\* C11 witness: a second session, holding the map of the first, has failed
\* on MAP_SIZE 33 1 and is back at the role selection with that map.
C11_Witness ==
    /\ pc = "RoleSelect" /\ mapRet = "-1"
    /\ rx = "line" /\ line = MsgMapSize(MAX_MAP_WIDTH + 1, 1)
    /\ map.width = 1 /\ map.height = 1 /\ map.tiles[0] = <<"T">>

\* C12 (Spec): when recv_line reports a disconnect or an error, in whatever
\* phase (JOINED wait, SPECTATE answer, roster fetch, map size, map rows,
\* live loop), the session ends in that step: the mode function returns to
\* the main loop, which closes the socket and shows the role selection
\* again (or leaves its loop if the window was closed meanwhile), and
\* nothing is sent; while no connection is open nothing is sent until a new
\* session connects.
C12_DisconnectEndsSession ==
    [][ /\ (pc \in ReceivePhases /\ rx' = "closed")
             => /\ pc' = Returned
                /\ socket_fd' = "INVALID" /\ connected' = 0
                /\ sent' = sent
        /\ (connected = 0 /\ pc # "Connecting") => sent' = sent ]_vars

\* C12 witness: the peer closed the connection of a spectator session
\* while rows of the map were being collected.
C12_Witness ==
    /\ pc = "RoleSelect" /\ role = ROLE_SPECTATOR
    /\ rx = "closed" /\ mapRet = "-1"
    /\ map.width = 1 /\ connected = 0
    /\ sent[Len(sent)].cmd = "SPECTATE"

\* C13 (Spec): no failure inside a session ends the process.  Once a role
\* is chosen, whatever fails (the connection attempt included), the client
\* is back at the role selection afterwards; the main loop is left, and the
\* process ends, only when the window has been closed.
C13_OnlyWindowCloseEndsProcess ==
    [][ ~windowClosed => pc' \notin {"Exited", "Crashed"} ]_vars

\* The phase of the session a control point belongs to.
PhaseOf(p) ==
    CASE p = "RoleSelect" -> "RoleSelect"
      [] p = "Connecting" -> "Connecting"
      [] p \in {"Join", "Spectate"} -> "Handshaking"
      [] p \in {"MapSize", "MapRows"} -> "MapTransfer"
      [] p \in {"Roster", "NoPlayers", "Select"} -> "RosterSelect"
      [] p = "Live" -> "Live"
      [] OTHER -> "Ended"

PhaseIndex(ord, ph) == CHOOSE k \in 1..Len(ord) : ord[k] = ph

\* RosterSelect belongs to spectator sessions only.
PhaseApplies(ph, rl) == ph = "RosterSelect" => rl = ROLE_SPECTATOR

\* The phase that follows ph in the order ord in a session of role rl.
NextPhase(ord, ph, rl) ==
    LET later == {k \in (PhaseIndex(ord, ph) + 1)..Len(ord) : PhaseApplies(ord[k], rl)}
    IN IF later = {} THEN "Ended"
       ELSE ord[CHOOSE k \in later : \A k2 \in later : k <= k2]

\* A step stays in its phase, enters the next phase of the order, or ends
\* the session (back to the role selection, or out of the main loop).
PhaseStep(ord) ==
    \/ pc' \in {"RoleSelect", "Exited", "Crashed"}
    \/ PhaseOf(pc') = PhaseOf(pc)
    \/ PhaseOf(pc') = NextPhase(ord, PhaseOf(pc), role')

\* A phase is entered only when the one before it has completed with
\* success: the connection is open, the roster holds the selected target
\* and SPECTATE was sent for it, the handshake got its JOINED or
\* SPECTATE_OK, the map transfer returned 0.
EnteredAfterSuccess ==
    PhaseOf(pc') # PhaseOf(pc) =>
        CASE PhaseOf(pc') = "RosterSelect" -> connected' = 1
          [] pc' = "Join" -> connected' = 1
          [] pc' = "Spectate" ->
               /\ numPlayers > 0 /\ selected' \in 0..(numPlayers - 1)
               /\ sent' = Append(sent, [cmd |-> "SPECTATE", arg |-> players[selected'].id])
          [] PhaseOf(pc') = "MapTransfer" ->
               rx' = "line" /\ (IsJoinedMsg(line') \/ IsSpectateOkMsg(line'))
          [] PhaseOf(pc') = "Live" -> mapRet' = "0" /\ line' = S_MAP_END
          [] OTHER -> TRUE

SpecifiedOrder ==
    <<"RoleSelect", "Connecting", "Handshaking", "MapTransfer", "RosterSelect", "Live">>

RosterFirstOrder ==
    <<"RoleSelect", "Connecting", "RosterSelect", "Handshaking", "MapTransfer", "Live">>

C15_ContextResetBetweenSessions ==
    (pc = "Connecting" \/ (pc \in {"Join", "Roster"} /\ line = <<>>)) =>
        /\ map = ZeroMap
        /\ playerId = 0
        /\ entity = <<0, 0, 0, 0, 0, 0>>
        /\ roster = <<0, ZeroPlayers>>

\* The six tracked fields as a STATE line of fields f sets them.
EntityOf(f) == <<f.x, f.y, f.score, f.level, f.lives, IF f.over THEN 1 ELSE 0>>

\* C16 (Spec): in the live loop of a player and of a spectator, a received
\* line STATE seq id x y score level lives gameOver whose id is playerId
\* overwrites x, y, score, level, lives and gameOver with the values of
\* that line, gameOver being true exactly when the last token is `true`.
C16_StateOverwritesAllSix ==
    [][ (/\ pc = "Live"
         /\ rx' = "line"
         /\ IsStateMsg(line')
         /\ StateMsgOf(line').f.id = playerId)
          => entity' = EntityOf(StateMsgOf(line').f) ]_vars

\* The position of the first line terminator of a byte stream that has one.
FirstLF(s) == CHOOSE k \in 1..Len(s) : s[k] = LF /\ \A j \in 1..(k - 1) : s[j] # LF

HasLF(s) == \E k \in 1..Len(s) : s[k] = LF

StripCR(b) == IF Len(b) > 0 /\ b[Len(b)] = CR THEN SubSeq(b, 1, Len(b) - 1) ELSE b

\* C17 (SpecFraming): each recv_line call on a stream that still holds a
\* newline-terminated line consumes exactly that line, terminator
\* included, and returns its bytes before the terminator, without a
\* trailing carriage return if the line fits the buffer (255 characters)
\* and cut to the first 255 if it is longer; so the next call starts at
\* the following wire line and the excess of an over-long line is never
\* returned as a line.
C17_LineFraming ==
    [][ (pc = "RecvLine" /\ HasLF(rxbuf)) =>
          LET k == FirstLF(rxbuf)
              body == SubSeq(rxbuf, 1, k - 1)
          IN /\ rx' = "line"
             /\ rxbuf' = SubSeq(rxbuf, k + 1, Len(rxbuf))
             /\ line' = IF Len(body) <= LINE_SIZE - 1 THEN StripCR(body)
                        ELSE SubSeq(body, 1, LINE_SIZE - 1)
             /\ len' = Len(line') ]_vars

\* C18 (Spec): the roster fetch completes only by PLAYERS_BEGIN followed
\* by PLAYERS_END.  A PLAYERS_END received before any PLAYERS_BEGIN is
\* discarded like every other line before PLAYERS_BEGIN (the fetch goes on
\* waiting), and the fetch returns success only on a PLAYERS_END received
\* after PLAYERS_BEGIN.
C18_RosterFetchNeedsBegin ==
    [][ pc = "Roster" =>
          /\ (rx' = "line" /\ line' = S_PLAYERS_END /\ gotBegin = 0)
               => (pc' = "Roster" /\ gotBegin' = 0 /\ UNCHANGED roster)
          /\ pc' \in {"Select", "NoPlayers"}
               => (gotBegin = 1 /\ rx' = "line" /\ line' = S_PLAYERS_END) ]_vars

Spectates(log) == SelectSeq(log, LAMBDA m : m.cmd = "SPECTATE")

RosterPhases == {"Roster", "NoPlayers", "Select"}

C20_LongRowTruncated ==
    [][ (/\ pc = "MapRows"
         /\ rx' = "line"
         /\ IsRowMsg(line')
         /\ RowMsgOf(line').y \in 0..(map.height - 1)
         /\ Len(RowMsgOf(line').row) > map.width)
          => LET m == RowMsgOf(line')
             IN /\ pc' = "MapRows"
                /\ map'.width = map.width /\ map'.height = map.height
                /\ \A x \in 0..(map.width - 1) : TileAt(map', m.y, x) = m.row[x + 1]
                /\ \A y \in 0..(MAX_MAP_HEIGHT - 1) :
                      y # m.y => map'.tiles[y] = map.tiles[y]
                /\ UNCHANGED <<socket_fd, connected, playerId, entity, roster, sent,
                               mapRet>> ]_vars

\* C21 (SpecMap): after a successful map transfer (the row strings of the
\* peer hold tile codes only) every cell within width and height holds
\* one of W, T, =, |, S, G and '.'; the cells of a row beyond the end of a
\* row string shorter than width hold '.'.
C21_EveryCellDefined ==
    mapRet = "0" =>
        \A y \in 0..(map.height - 1), x \in 0..(map.width - 1) :
            /\ TileAt(map, y, x) \in TileCodes
            /\ (y \in DOMAIN tx.rows /\ tx.rows[y] # <<>> /\ x >= Len(tx.rows[y]))
                 => TileAt(map, y, x) = "."

\* The control points of a running session (a mode function is executing).
InSession == {"Join", "Roster", "NoPlayers", "Select", "Spectate", "MapSize", "MapRows", "Live"}

\* C22 (Spec): there is one socket handle and it is opened only by the
\* connect of a new session, when no connection is open; at the role
\* selection, before connecting and after the main loop no connection is
\* open (connected = 0, handle invalid); a running session has its
\* connection open; and the step in which a session ends, for whatever
\* reason, is the step that closes its connection.
C22_TransportLifecycle ==
    [][ /\ pc' \in {"RoleSelect", "Connecting", "Exited"}
              => (socket_fd' = "INVALID" /\ connected' = 0)
        /\ pc' \in InSession => (socket_fd' = "OPEN" /\ connected' = 1)
        /\ (socket_fd = "INVALID" /\ socket_fd' = "OPEN") => pc = "Connecting"
        /\ (socket_fd = "OPEN" /\ socket_fd' = "INVALID")
              => (pc \in InSession /\ pc' = Returned)
        /\ (pc \in InSession /\ pc' \in {"RoleSelect", "Exited"})
              => (socket_fd = "OPEN" /\ socket_fd' = "INVALID") ]_vars

\* C22 witness: a player session ended by the play-again button after the
\* game was over; its connection is closed and the role selection shows.
C22_Witness ==
    /\ pc = "RoleSelect" /\ role = ROLE_PLAYER
    /\ gameOver = 1 /\ mapRet = "0"
    /\ rx = "line" /\ IsStateMsg(line) /\ StateMsgOf(line).f.over
    /\ socket_fd = "INVALID" /\ connected = 0

\* C23 (Spec): in the live loop of either role a cancel request (ESC, or
\* the window being closed) is observed at the head of an iteration, and
\* the iteration that observes it ends the session without calling
\* recv_line, without changing the tracked entity and without sending.
\* With the window closed the next iteration is that one; an iteration
\* that has read a line ends the session only by the play-again button of
\* a player whose game is over.
C23_CancelAtLoopHead ==
    [][ pc = "Live" =>
          /\ windowClosed
               => (pc' = "Exited" /\ rx' = "none" /\ UNCHANGED <<entity, line, len, sent>>)
          /\ (rx' = "none" /\ windowClosed' = windowClosed)
               => (pc' = Returned /\ connected' = 0
                   /\ UNCHANGED <<entity, line, len, sent>>)
          /\ (pc' # "Live" /\ rx' = "line" /\ len' > 0)
               => (role = ROLE_PLAYER /\ gameOver' # 0) ]_vars

\* C23 witness: ESC ended a spectator session in its live loop after a
\* STATE line had been applied; the line buffer still holds that line.
C23_Witness ==
    /\ pc = "RoleSelect" /\ ~windowClosed /\ role = ROLE_SPECTATOR
    /\ rx = "none" /\ mapRet = "0"
    /\ IsStateMsg(line) /\ playerX = StateMsgOf(line).f.x /\ score = 10

\* C24 (SpecFair): a cancel request made while a session is running, in
\* whatever phase (handshake, roster fetch and selection, map transfer,
\* live loop), eventually ends the session, given that every recv_line
\* eventually returns.  The request is the closing of the window, which
\* WindowShouldClose() reports from then on.
C24_CancelEventuallyEndsSession ==
    (windowClosed /\ pc \in InSession) ~> (pc \notin InSession)

\* C25 (Spec): in the live loop of either role, a press of the play-again
\* button in an iteration that leaves gameOver set ends the session (back
\* in main with the socket closed), so no such iteration goes on to the
\* next one; and an iteration that has read a line ends the session only
\* when it leaves gameOver set.
C25_PlayAgainEndsSession ==
    [][ pc = "Live" =>
          /\ (pc' = "Live" /\ rx' = "line" /\ frame'.click) => gameOver' = 0
          /\ (pc' # "Live" /\ rx' = "line" /\ len' > 0) => gameOver' # 0
          /\ pc' # "Live"
                => (pc' = Returned /\ socket_fd' = "INVALID" /\ connected' = 0) ]_vars

\* The first words of the lines that the phases before the live loop
\* interpret.
SetupWords == {S_MAP_SIZE, S_MAP_ROW, S_MAP_END, S_PLAYER, S_JOINED, S_SPECTATE_OK}

\* C26 (Spec): a line is interpreted only by the loop that reads it.  A
\* STATE line read while waiting for JOINED or SPECTATE_OK, during the
\* roster fetch or during the map transfer leaves the six fields of the
\* tracked entity as they were, also when its id is playerId; a MAP_SIZE,
\* MAP_ROW, MAP_END, PLAYER, JOINED or SPECTATE_OK line read in a live
\* loop leaves the map, the roster and playerId as they were.
C26_LinesBelongToTheirPhase ==
    [][ /\ (pc \in ReceivePhases \ {"Live"} /\ rx' = "line"
                /\ Parse(line').first = S_STATE)
              => UNCHANGED entity
        /\ (pc = "Live" /\ rx' = "line" /\ Parse(line').first \in SetupWords)
              => UNCHANGED <<map, roster, playerId>> ]_vars

\* A player whose id is 1 has read, while waiting for MAP_SIZE, a STATE
\* line for id 1 that reports a score of 20 and gameOver, and tracks none
\* of it.
C26_Witness ==
    /\ pc = "MapSize" /\ role = ROLE_PLAYER /\ playerId = 1
    /\ rx = "line" /\ line = MsgState(2, 1, 0, 0, 20, 2, 0, TRUE)
    /\ score = 0 /\ gameOver = 0

\* The jump test of a frame, read from the map by the rules of the
\* resolver: a jump key, a solid tile at or below the position, no ceiling
\* tile above it.
RefJumps(m, x, y, k) ==
    /\ k.space
    /\ RefTile(m, x, y) \in {"T", "=", "|", "S"} \/ RefTile(m, x, y - 1) \in {"T", "=", "|", "S"}
    /\ RefTile(m, x, y + 1) \notin {"T", "=", "S"}

\* C27 (SpecResolver): an iteration that resolves a frame with the left
\* and the right key both held resolves dx = -2 (left wins) when the
\* frame jumps and dx = +1 (right wins) when it does not, also when the
\* jump key is held and the jump is rejected for lack of support or for
\* a ceiling.
C27_LeftRightTieBreak ==
    [][ (Resolved' /\ frame'.keys.left /\ frame'.keys.right) =>
          IF RefJumps(map', playerX', playerY', frame'.keys)
          THEN frame'.dx = -2 /\ frame'.dy = 1
          ELSE frame'.dx = 1 ]_vars

\* Both keys and the jump key held under a ceiling: the jump is rejected
\* and the frame moves right.
C27_Witness ==
    /\ Resolved
    /\ frame.keys = Keys(TRUE, TRUE, TRUE, FALSE, FALSE)
    /\ map = ColumnMap(<<"T", "=">>) /\ playerX = 0 /\ playerY = 0
    /\ frame.dx = 1 /\ frame.dy = 0

\* C28 (Spec): INPUT is sent only by the live loop of a player session.
\* While a session is in any other phase, or is a spectator session, the
\* log of its connection holds no INPUT (so none precedes JOINED and
\* MAP_END, and a spectator sends none); a step that sends INPUT is an
\* iteration of the player's live loop after a successful map transfer,
\* it has read a line successfully, and it sends exactly one.
C28_InputOnlyInPlayerLive ==
    [][ /\ (pc \in InSession /\ ~(pc = "Live" /\ role = ROLE_PLAYER))
              => Inputs(sent) = <<>>
        /\ Len(Inputs(sent')) > Len(Inputs(sent))
              => /\ pc = "Live" /\ role = ROLE_PLAYER /\ mapRet = "0"
                 /\ sent[1] = [cmd |-> "JOIN", arg |-> 0]
                 /\ rx' = "line" /\ len' > 0
                 /\ Len(Inputs(sent')) = Len(Inputs(sent)) + 1
                 /\ Len(sent') = Len(sent) + 1 ]_vars

\* A player session that has sent its second INPUT in the iteration that
\* read a STATE line.
C28_Witness ==
    /\ pc = "Live" /\ role = ROLE_PLAYER
    /\ Len(Inputs(sent)) = 2 /\ seq = 2
    /\ rx = "line" /\ IsStateMsg(line)
    /\ frame.dx # 0

\* The tracked position lies outside the map.
Outside == ~(0 <= playerY /\ playerY < map.height /\ 0 <= playerX /\ playerX < map.width)

\* In the live loop the map is between 1 and 32 tiles wide and high, the
\* movement block indexes cells of the map only, and a tile outside the
\* map counts as '.'.
ReadsStayInMap ==
    /\ 1 <= map.width /\ map.width <= MAX_MAP_WIDTH
    /\ 1 <= map.height /\ map.height <= MAX_MAP_HEIGHT
    /\ \A c \in TileReads(map, playerX, playerY) :
          0 <= c[1] /\ c[1] < map.height /\ 0 <= c[2] /\ c[2] < map.width
    /\ \A d \in {-1, 0, 1} :
          ~(0 <= playerY + d /\ playerY + d < map.height
              /\ 0 <= playerX /\ playerX < map.width)
            => TileOrEmpty(map, playerX, playerY + d) = "."

\* C29 as stated (SpecResolver): in an iteration of the live loop the map
\* dimensions are within 1..32, the resolver reads only cells inside the
\* map for every reported position, and a player outside the map is never
\* supported: it neither jumps nor climbs.
C29_OutsideNeverMovesVertically ==
    [][ Resolved' => (ReadsStayInMap' /\ (Outside' => frame'.dy = 0)) ]_vars

\* C29 amended (SpecResolver): dimensions and reads as above; a player
\* outside the map never climbs, and it jumps only from the row just
\* above the map (y = height, x inside) with a solid tile below it.
C29_OutsideJumpsOnlyFromTopOfMap ==
    [][ Resolved' =>
          /\ ReadsStayInMap'
          /\ Outside' =>
                /\ frame'.dy # -1
                /\ frame'.dy = 1 =>
                      /\ frame'.keys.space
                      /\ playerY' = map'.height /\ 0 <= playerX' /\ playerX' < map'.width
                      /\ RefTile(map', playerX', playerY' - 1) \in {"T", "=", "|", "S"} ]_vars

\* A player one row above a one-tile map of ground jumps.
C29_Witness ==
    /\ Resolved /\ Outside
    /\ map = ColumnMap(<<"T">>) /\ playerX = 0 /\ playerY = 1
    /\ frame.keys.space /\ frame.dy = 1

=============================================================================
